---- MODULE Spec2Model ----
(***************************************************************************)
(* A model of macky_xml (src/src/lib.rs): the nom-based recursive-descent  *)
(* parser for a restricted XML subset, the two whitespace-strip passes and *)
(* the QuerySupport accessors over vectors of borrowed Node / Element      *)
(* references.                                                             *)
(*                                                                         *)
(* A &str is a sequence of one-character strings.  A nom IResult is a      *)
(* record: [kind |-> "Ok", rest, val], or [kind |-> "Error" | "Failure",   *)
(* code] for nom::Err::Error / nom::Err::Failure, or [kind |-> "Panic"]    *)
(* for a Rust panic that unwinds through the parser.                       *)
(***************************************************************************)
EXTENDS Integers, Sequences, FiniteSets, TLC

VARIABLES
    allow_no_close, \* Parser.allow_no_close: the configured tag names
    src,            \* the markup the caller assembled the buffer from
    input,          \* the text buffer handed to the library
    tree,           \* an owned Element tree (arena the references point into)
    refs,           \* a Vec<&Node> / Vec<&Element>: paths into tree
    arg,            \* the argument of the operation (name, index)
    op,             \* the operation that ran ("" before any)
    result          \* what the operation returned

vars == <<allow_no_close, src, input, tree, refs, arg, op, result>>

----------------------------------------------------------------------------
(* Characters and strings.                                                 *)

UpperSeq ==
    <<"A","B","C","D","E","F","G","H","I","J","K","L","M",
      "N","O","P","Q","R","S","T","U","V","W","X","Y","Z">>

LowerSeq ==
    <<"a","b","c","d","e","f","g","h","i","j","k","l","m",
      "n","o","p","q","r","s","t","u","v","w","x","y","z">>

DigitSeq == <<"0","1","2","3","4","5","6","7","8","9">>

IsUpper(ch) == \E i \in DOMAIN UpperSeq : UpperSeq[i] = ch

IsLower(ch) == \E i \in DOMAIN LowerSeq : LowerSeq[i] = ch

\* char::to_ascii_lowercase
to_ascii_lowercase_ch(ch) ==
    IF IsUpper(ch)
    THEN LowerSeq[CHOOSE i \in DOMAIN UpperSeq : UpperSeq[i] = ch]
    ELSE ch

\* str::to_ascii_lowercase
to_ascii_lowercase(s) == [i \in 1..Len(s) |-> to_ascii_lowercase_ch(s[i])]

\* str::eq_ignore_ascii_case
eq_ignore_ascii_case(a, b) == to_ascii_lowercase(a) = to_ascii_lowercase(b)

\* char::is_whitespace, on the ASCII characters
is_whitespace(ch) == ch \in {" ", "\t", "\n", "\r", "\f"}

\* char::is_ascii_digit
is_ascii_digit(ch) == \E i \in DOMAIN DigitSeq : DigitSeq[i] = ch

name_char(ch) == ch = ":" \/ IsLower(ch) \/ IsUpper(ch) \/ ch = "!"

is_char(x) == x # "<" /\ x # ">"

\* the suffix of s from position i on (&s[i-1..] in Rust's 0-based terms)
From(s, i) == SubSeq(s, i, Len(s))

\* the number of leading TRUE entries of a sequence of booleans
PrefixLen(sat) ==
    IF \E i \in DOMAIN sat : ~sat[i]
    THEN (CHOOSE i \in DOMAIN sat : ~sat[i] /\ \A j \in 1..(i - 1) : sat[j]) - 1
    ELSE Len(sat)

\* str::trim: both ends, char::is_whitespace
trim(s) ==
    LET ws == [i \in 1..Len(s) |-> is_whitespace(s[i])]
        lead == PrefixLen(ws)
        back == PrefixLen([i \in 1..Len(s) |-> ws[Len(s) + 1 - i]])
    IN  IF lead = Len(s) THEN <<>> ELSE SubSeq(s, lead + 1, Len(s) - back)

----------------------------------------------------------------------------
(* nom results and combinators.                                            *)

Ok(rest, val) == [kind |-> "Ok", rest |-> rest, val |-> val]

Err(kind, code) == [kind |-> kind, code |-> code]

\* nom::bytes::complete::tag
tag(t, i) ==
    IF Len(i) >= Len(t) /\ SubSeq(i, 1, Len(t)) = t
    THEN Ok(From(i, Len(t) + 1), t)
    ELSE Err("Error", "Tag")

\* nom::bytes::complete::take_while; sat[k] says whether the predicate holds
\* of i[k]
take_while(sat, i) ==
    LET n == PrefixLen(sat) IN Ok(From(i, n + 1), SubSeq(i, 1, n))

\* nom::bytes::complete::take_while1
take_while1(sat, i) ==
    IF PrefixLen(sat) = 0 THEN Err("Error", "TakeWhile1") ELSE take_while(sat, i)

\* nom::bytes::complete::take_until: up to, not including, the first t
take_until(t, i) ==
    LET at == {k \in 1..(Len(i) - Len(t) + 1) : SubSeq(i, k, k + Len(t) - 1) = t}
    IN  IF at = {} THEN Err("Error", "TakeUntil")
        ELSE LET k == CHOOSE k \in at : \A m \in at : k <= m
             IN  Ok(From(i, k), SubSeq(i, 1, k - 1))

\* the ws! macro: the input after take_while(char::is_whitespace)
ws(i) == From(i, PrefixLen([k \in 1..Len(i) |-> is_whitespace(i[k])]) + 1)

\* `let (input, x) = p(input)?; Ok((input, v))`: the error of r, or v behind
\* what r left
WithVal(r, v) == IF r.kind # "Ok" THEN r ELSE Ok(r.rest, v)

identifier(i) == take_while1([k \in 1..Len(i) |-> name_char(i[k])], i)

\* alt((tag("\""), tag("\'")))
quote_alt(first, i) == IF first.kind = "Ok" THEN first ELSE tag(<<"'">>, i)

quote(i) == quote_alt(tag(<<"\"">>, i), i)

attribute_value_close(q, d) == WithVal(tag(q, d.rest), d.val)

attribute_value_data(q) ==
    IF q.kind # "Ok" THEN q
    ELSE attribute_value_close(q.val,
             take_while([k \in 1..Len(q.rest) |-> <<q.rest[k]>> # q.val], q.rest))

attribute_value(i) == attribute_value_data(quote(i))

eq_sign(e) == IF e.kind # "Ok" THEN e ELSE Ok(ws(e.rest), <<>>)

eq(i) == eq_sign(tag(<<"=">>, ws(i)))

attribute_pair(key, v) == IF v.kind # "Ok" THEN v ELSE Ok(ws(v.rest), <<key, v.val>>)

attribute_eq(key, e) ==
    IF e.kind # "Ok" THEN e ELSE attribute_pair(key, attribute_value(e.rest))

attribute_key(k) ==
    IF k.kind # "Ok" THEN k ELSE attribute_eq(to_ascii_lowercase(k.val), eq(k.rest))

attribute(i) == attribute_key(identifier(ws(i)))

\* many0(attribute): stops at the first Err::Error; a parser that consumed
\* nothing is nom's infinite-loop error
RECURSIVE many0_attribute(_, _)
many0_attribute_step(i, acc, a) ==
    IF a.kind = "Error" THEN Ok(i, acc)
    ELSE IF a.kind # "Ok" THEN a
    ELSE IF Len(a.rest) = Len(i) THEN Err("Error", "Many0")
    ELSE many0_attribute(a.rest, Append(acc, a.val))

many0_attribute(i, acc) == many0_attribute_step(i, acc, attribute(i))

----------------------------------------------------------------------------
(* Character data.                                                         *)

CDataOpen == <<"<","!","[","C","D","A","T","A","[">>

CDataClose == <<"]","]",">">>

CharData(data) == [tag |-> "CharData", data |-> data]

ElementNode(e) == [tag |-> "Element", element |-> e]

cdata_section_data(d) ==
    IF d.kind # "Ok" THEN d ELSE WithVal(tag(CDataClose, d.rest), d.val)

cdata_section_open(o) ==
    IF o.kind # "Ok" THEN o ELSE cdata_section_data(take_until(CDataClose, o.rest))

cdata_section(i) == cdata_section_open(tag(CDataOpen, i))

text_data(i) == take_while([k \in 1..Len(i) |-> is_char(i[k])], i)

\* (faulty variant) the alternatives in the other order: text_data always succeeds
char_data_alt_text_first(c, i) == text_data(i)

\* alt((cdata_section, text_data))
char_data_alt(c, i) == IF c.kind = "Error" THEN text_data(i) ELSE c

char_data(i) == char_data_alt(cdata_section(i), i)

char_data_node(d) == IF d.kind # "Ok" THEN d ELSE Ok(d.rest, CharData(d.val))

char_data_into_node(i) == char_data_node(char_data(i))

----------------------------------------------------------------------------
(* Parser::element, Parser::node and the entry points.                     *)

Doctype == <<"!","D","O","C","T","Y","P","E">>

DoctypeDecl == <<"d","o","c","t","y","p","e","_","d","e","c","l">>

EmptyMap == [k \in {} |-> <<>>]

Element(name, attributes, children) ==
    [name |-> name, attributes |-> attributes, children |-> children]

\* Vec<String>::contains
Contains(v, x) == \E k \in DOMAIN v : v[k] = x

\* the doctype branch when take_until left nothing behind it
DoctypeNoInput == Err("Error", "Tag")

\* (faulty variant) the mismatch reported as a recoverable error
NameMismatch_soft == Err("Error", "Tag")

\* an end-tag name that is not the start-tag name
NameMismatch == Err("Failure", "Tag")

\* a key that is already in the attribute map
DuplicateAttribute == Err("Error", "Verify")

\* HashMap::insert
Insert(map, key, value) ==
    [x \in DOMAIN map \cup {key} |-> IF x = key THEN value ELSE map[x]]

\* (faulty variant) the loop without the contains_key test: a later value replaces
\* an earlier one
RECURSIVE attribute_map_overwrite(_, _, _)
attribute_map_overwrite(attributes, k, map) ==
    IF k > Len(attributes) THEN Ok(<<>>, map)
    ELSE attribute_map_overwrite(attributes, k + 1,
                                 Insert(map, attributes[k][1], attributes[k][2]))

\* the loop that fills the HashMap from the parsed (key, value) pairs,
\* from the k-th pair on
RECURSIVE attribute_map(_, _, _)
attribute_map(attributes, k, map) ==
    IF k > Len(attributes) THEN Ok(<<>>, map)
    ELSE IF attributes[k][1] \in DOMAIN map THEN DuplicateAttribute
    ELSE attribute_map(attributes, k + 1,
                       Insert(map, attributes[k][1], attributes[k][2]))

RECURSIVE element(_, _)

element_node(e) == IF e.kind # "Ok" THEN e ELSE Ok(e.rest, ElementNode(e.val))

element_into_node(self, i) == element_node(element(self, i))

\* alt((element_into_node, char_data_into_node)): the second parser runs only
\* after an Err::Error of the first
node_alt(e, i) == IF e.kind = "Error" THEN char_data_into_node(i) ELSE e

node(self, i) == node_alt(element_into_node(self, i), i)

\* many_till(node, tag("</")): the end marker is tried first; a node that
\* consumed nothing is nom's infinite-loop error
RECURSIVE many_till_node(_, _, _)
many_till_node_step(self, i, acc, f) ==
    IF f.kind # "Ok" THEN f
    ELSE IF Len(f.rest) = Len(i) THEN Err("Error", "ManyTill")
    ELSE many_till_node(self, f.rest, Append(acc, f.val))

many_till_node_end(self, i, acc, g) ==
    IF g.kind = "Ok" THEN Ok(g.rest, acc)
    ELSE many_till_node_step(self, i, acc, node(self, i))

many_till_node(self, i, acc) ==
    many_till_node_end(self, i, acc, tag(<<"<","/">>, i))

\* (faulty variant) the first alternative without the allow_no_close branch
close_empty_slash_only(self, name, i, bare) == WithVal(tag(<<"/",">">>, i), <<>>)

\* first alternative of the closing decision: a bare > for a configured name,
\* otherwise />
close_empty_bare(self, name, i, bare) ==
    IF Contains(self, name) /\ bare.kind = "Ok" THEN Ok(bare.rest, <<>>)
    ELSE WithVal(tag(<<"/",">">>, i), <<>>)

close_empty(self, name, i) == close_empty_bare(self, name, i, tag(<<">">>, i))

\* second alternative: > children </ name >
close_pair_name(name, children, r) ==
    IF r.kind # "Ok" THEN r
    ELSE IF name = to_ascii_lowercase(r.val)
    THEN WithVal(tag(<<">">>, ws(r.rest)), children)
    ELSE NameMismatch

close_pair_children(name, c) ==
    IF c.kind # "Ok" THEN c ELSE close_pair_name(name, c.val, identifier(ws(c.rest)))

close_pair_open(self, name, o) ==
    IF o.kind # "Ok" THEN o
    ELSE close_pair_children(name, many_till_node(self, ws(o.rest), <<>>))

close_pair(self, name, i) == close_pair_open(self, name, tag(<<">">>, i))

\* alt((close_empty, close_pair))
close_alt(self, name, i, first) ==
    IF first.kind = "Error" THEN close_pair(self, name, i) ELSE first

\* the <!DOCTYPE branch
doctype_until(u) ==
    IF u.kind # "Ok" THEN u
    ELSE IF Len(u.rest) > 0
    THEN Ok(From(u.rest, 2), Element(DoctypeDecl, EmptyMap, <<>>))
    ELSE DoctypeNoInput

doctype(i) == doctype_until(take_until(<<">">>, i))

\* the Element literal: the map is built, or the parse returns its error
element_map(name, ch, m) ==
    IF m.kind # "Ok" THEN m ELSE Ok(ws(ch.rest), Element(name, m.val, ch.val))

element_children(name, attributes, ch) ==
    IF ch.kind # "Ok" THEN ch
    ELSE element_map(name, ch, attribute_map(attributes, 1, EmptyMap))

element_attributes(self, name, attrs) ==
    IF attrs.kind # "Ok" THEN attrs
    ELSE element_children(name, attrs.val,
             close_alt(self, name, attrs.rest, close_empty(self, name, attrs.rest)))

element_name(self, id) ==
    IF id.kind # "Ok" THEN id
    ELSE IF id.val = Doctype THEN doctype(id.rest)
    ELSE element_attributes(self, to_ascii_lowercase(id.val),
                            many0_attribute(ws(id.rest), <<>>))

element_lt(self, lt) ==
    IF lt.kind # "Ok" THEN lt ELSE element_name(self, identifier(lt.rest))

element(self, i) == element_lt(self, tag(<<"<">>, i))

----------------------------------------------------------------------------
(* Whitespace stripping.                                                   *)

\* (faulty variant) the closure testing data.len() instead of data.trim().len()
retained_untrimmed(e) == IF e.tag = "CharData" THEN Len(e.data) > 0 ELSE TRUE

\* the closure of Vec::retain in Element::strip_whitespace
retained(e) == IF e.tag = "CharData" THEN Len(trim(e.data)) > 0 ELSE TRUE

\* Element::strip_whitespace (&mut self): the element after the call
RECURSIVE Element_strip_whitespace(_)
Element_strip_each(kept) ==
    [k \in 1..Len(kept) |->
        IF kept[k].tag = "Element"
        THEN ElementNode(Element_strip_whitespace(kept[k].element))
        ELSE kept[k]]

Element_strip_whitespace(e) ==
    Element(e.name, e.attributes, Element_strip_each(SelectSeq(e.children, retained)))

\* (faulty variant) the children loop without the `continue`
strip_children_keep(xs, v) == v \o xs

\* the children loop of the free function: push unless an empty CharData
RECURSIVE strip_children(_, _)
strip_children(xs, v) ==
    IF xs = <<>> THEN v
    ELSE IF Head(xs).tag = "CharData" /\ Len(Head(xs).data) = 0
    THEN strip_children(Tail(xs), v)
    ELSE strip_children(Tail(xs), Append(v, Head(xs)))

\* the free function strip_whitespace(node: Node) -> Node
RECURSIVE strip_whitespace(_)
strip_whitespace(n) ==
    IF n.tag = "CharData" THEN CharData(trim(n.data))
    ELSE ElementNode(Element(n.element.name, n.element.attributes,
             strip_children([k \in 1..Len(n.element.children) |->
                                strip_whitespace(n.element.children[k])], <<>>)))

None == [kind |-> "None"]

Some(v) == [kind |-> "Some", val |-> v]

\* Parser::complete_element
complete_element_parsed(e) ==
    IF e.kind # "Ok" THEN None
    ELSE IF Len(e.rest) = 0 THEN Some(Element_strip_whitespace(e.val))
    ELSE None

complete_element(self, i) == complete_element_parsed(element(self, i))

----------------------------------------------------------------------------
(* Parser::document.                                                       *)

\* i32::MAX, as its decimal digits
I32MaxDigits == <<"2","1","4","7","4","8","3","6","4","7">>

DigitOf(ch) == (CHOOSE k \in DOMAIN DigitSeq : DigitSeq[k] = ch) - 1

NoLeadingZeros(d) == From(d, PrefixLen([k \in 1..Len(d) |-> d[k] = "0"]) + 1)

\* whether a run of ASCII digits without leading zeros is at most i32::MAX
AtMostI32Max(z) ==
    \/ Len(z) < Len(I32MaxDigits)
    \/ /\ Len(z) = Len(I32MaxDigits)
       /\ \/ z = I32MaxDigits
          \/ \E k \in DOMAIN z :
                /\ DigitOf(z[k]) < DigitOf(I32MaxDigits[k])
                /\ \A j \in 1..(k - 1) : z[j] = I32MaxDigits[j]

\* the decimal value of a run of ASCII digits
RECURSIVE DecValue(_)
DecValue(d) ==
    IF d = <<>> THEN 0
    ELSE 10 * DecValue(SubSeq(d, 1, Len(d) - 1)) + DigitOf(d[Len(d)])

Panic == [kind |-> "Panic"]

\* str::parse::<i32>().unwrap() on a run of ASCII digits: the empty run and a
\* value above i32::MAX are Err, and unwrap panics
parse_i32_unwrap(d) ==
    IF d = <<>> \/ ~AtMostI32Max(NoLeadingZeros(d)) THEN Panic ELSE Some(DecValue(d))

version_num_parsed(d, n) == IF n.kind = "Panic" THEN Panic ELSE Ok(d.rest, n.val)

version_num_digits(d) == version_num_parsed(d, parse_i32_unwrap(d.val))

version_num_one(one) ==
    IF one.kind # "Ok" THEN one
    ELSE version_num_digits(
             take_while([k \in 1..Len(one.rest) |-> is_ascii_digit(one.rest[k])], one.rest))

version_num(i) == version_num_one(tag(<<"1",".">>, i))

\* quoted(|_| version_num)
quoted_inner(q, r) == IF r.kind # "Ok" THEN r ELSE WithVal(tag(q, r.rest), r.val)

quoted_open(q) == IF q.kind # "Ok" THEN q ELSE quoted_inner(q.val, version_num(q.rest))

quoted_version_num(i) == quoted_open(quote(i))

encoding_value(d) == IF d.kind # "Ok" THEN d ELSE Ok(d.rest, Some(d.val))

encoding_eq(e) == IF e.kind # "Ok" THEN e ELSE encoding_value(attribute_value(e.rest))

encoding_tag(i, t) == IF t.kind # "Ok" THEN Ok(i, None) ELSE encoding_eq(eq(t.rest))

encoding(i) == encoding_tag(i, tag(<<"e","n","c","o","d","i","n","g">>, i))

Document(version, enc, root) ==
    [version |-> version, encoding |-> enc, root |-> root]

document_root(version, enc, r) ==
    IF r.kind # "Ok" THEN r ELSE Ok(ws(r.rest), Document(version, enc, r.val))

document_end(self, version, enc, q) ==
    IF q.kind # "Ok" THEN q
    ELSE document_root(version, enc, element(self, ws(q.rest)))

document_encoding(self, version, c) ==
    IF c.kind # "Ok" THEN c
    ELSE document_end(self, version, c.val, tag(<<"?",">">>, ws(c.rest)))

document_version(self, n) ==
    IF n.kind # "Ok" THEN n ELSE document_encoding(self, n.val, encoding(ws(n.rest)))

document_eq(self, e) ==
    IF e.kind # "Ok" THEN e ELSE document_version(self, quoted_version_num(e.rest))

document_attr(self, v) == IF v.kind # "Ok" THEN v ELSE document_eq(self, eq(v.rest))

document_xml(self, x) ==
    IF x.kind # "Ok" THEN x
    ELSE document_attr(self, tag(<<"v","e","r","s","i","o","n">>, ws(x.rest)))

document(self, i) == document_xml(self, tag(<<"<","?","x","m","l">>, ws(i)))

\* Parser::complete_document
complete_document_parsed(d) ==
    IF d.kind = "Panic" THEN Panic
    ELSE IF d.kind # "Ok" THEN None
    ELSE IF Len(d.rest) = 0
    THEN Some(Document(d.val.version, d.val.encoding,
                       Element_strip_whitespace(d.val.root)))
    ELSE None

complete_document(self, i) == complete_document_parsed(document(self, i))

----------------------------------------------------------------------------
(* The buffers the caller hands in.  A buffer is written from a description *)
(* of its markup (src): an optional prolog, a root item and a tail.  An     *)
(* item is a text run, a CDATA section, a doctype declaration or an element *)
(* with its start-tag name, attributes as written, the way its tag ends    *)
(* ("slash": />, "bare": > and nothing more, "pair": > items </close>).     *)

SrcText(s) == [k |-> "text", s |-> s]

SrcCData(s) == [k |-> "cdata", s |-> s]

SrcDoctype(s, closed) == [k |-> "doctype", s |-> s, closed |-> closed]

SrcElem(open, attrs, end, kids, close) ==
    [k |-> "elem", open |-> open, attrs |-> attrs, end |-> end,
     kids |-> kids, close |-> close]

SrcAttr(key, q, value) == [key |-> key, q |-> q, value |-> value]

RECURSIVE Concat(_)
Concat(ss) == IF ss = <<>> THEN <<>> ELSE Head(ss) \o Concat(Tail(ss))

WriteAttrs(attrs) ==
    Concat([j \in 1..Len(attrs) |->
               <<" ">> \o attrs[j].key \o <<"=">> \o <<attrs[j].q>>
                       \o attrs[j].value \o <<attrs[j].q>>])

RECURSIVE Write(_)
Write(n) ==
    CASE n.k = "text" -> n.s
      [] n.k = "cdata" -> CDataOpen \o n.s \o CDataClose
      [] n.k = "doctype" ->
            <<"<">> \o Doctype \o n.s \o (IF n.closed THEN <<">">> ELSE <<>>)
      [] n.k = "elem" ->
            <<"<">> \o n.open \o WriteAttrs(n.attrs) \o
            (CASE n.end = "slash" -> <<"/", ">">>
               [] n.end = "bare" -> <<">">>
               [] n.end = "pair" ->
                     <<">">> \o Concat([j \in 1..Len(n.kids) |-> Write(n.kids[j])])
                             \o <<"<", "/">> \o n.close \o <<">">>)

WriteAll(items) == Concat([j \in 1..Len(items) |-> Write(items[j])])

Src(prolog, root, tail) == [prolog |-> prolog, root |-> root, tail |-> tail]

WriteSrc(s) == s.prolog \o Write(s.root) \o s.tail

\* nesting depth bound of the generated markup
MaxDepth == 2

\* all elements obtained by wrapping a leaf in at most d of the given frames;
\* a frame is [open, attrs, close, pre, post]: the start and end tag and the
\* items before and after the wrapped element
RECURSIVE Wrapped(_, _, _)
Wrapped(leaves, frames, d) ==
    IF d = 0 THEN leaves
    ELSE LET inner == Wrapped(leaves, frames, d - 1)
         IN  inner \cup
             { SrcElem(f.open, f.attrs, "pair", f.pre \o <<c>> \o f.post, f.close) :
                 f \in frames, c \in inner }

\* the elements of an item, the item itself included
RECURSIVE ElemsOf(_)
ElemsOf(n) ==
    IF n.k # "elem" THEN {}
    ELSE {n} \cup UNION { ElemsOf(n.kids[j]) : j \in 1..Len(n.kids) }

Idle == [kind |-> "Idle"]

NoTree == Element(<<>>, EmptyMap, <<>>)

\* the state before any operation, for a parser configuration and a buffer
Start(config, s) ==
    /\ allow_no_close = config
    /\ src = s
    /\ input = WriteSrc(s)
    /\ tree = NoTree
    /\ refs = <<>>
    /\ arg = 0
    /\ op = ""
    /\ result = Idle

\* the root (j = 0) or the j-th direct item of a "pair" root
Item(s, j) == IF j = 0 THEN s.root ELSE s.root.kids[j]

Items(s) ==
    IF s.root.k = "elem" /\ s.root.end = "pair" THEN 0..Len(s.root.kids) ELSE {0}

\* the offset (1-based) in the buffer at which Item(s, j) starts
ItemStart(s, j) ==
    IF j = 0 THEN 1
    ELSE Len(<<"<">> \o s.root.open \o WriteAttrs(s.root.attrs) \o <<">">>)
         + Len(WriteAll(SubSeq(s.root.kids, 1, j - 1))) + 1

----------------------------------------------------------------------------
(* The operations.                                                         *)

ParseElement ==
    /\ op = "" /\ src.prolog = <<>>
    /\ op' = "element"
    /\ result' = element(allow_no_close, input)
    /\ UNCHANGED <<allow_no_close, src, input, tree, refs, arg>>

ParseNode ==
    /\ op = "" /\ src.prolog = <<>>
    /\ \E j \in Items(src) :
          /\ arg' = j
          /\ result' = node(allow_no_close, From(input, ItemStart(src, j)))
    /\ op' = "node"
    /\ UNCHANGED <<allow_no_close, src, input, tree, refs>>

CompleteElement ==
    /\ op = "" /\ src.prolog = <<>>
    /\ op' = "complete_element"
    /\ result' = complete_element(allow_no_close, input)
    /\ UNCHANGED <<allow_no_close, src, input, tree, refs, arg>>

ParseDocument ==
    /\ op = "" /\ src.prolog # <<>>
    /\ op' = "document"
    /\ result' = document(allow_no_close, input)
    /\ UNCHANGED <<allow_no_close, src, input, tree, refs, arg>>

CompleteDocument ==
    /\ op = "" /\ src.prolog # <<>>
    /\ op' = "complete_document"
    /\ result' = complete_document(allow_no_close, input)
    /\ UNCHANGED <<allow_no_close, src, input, tree, refs, arg>>

----------------------------------------------------------------------------
(* End-tag names (C1).                                                     *)

Name_a == <<"a">>

Name_b == <<"b">>

NoAttrs == <<>>

MismatchLeaves ==
    { SrcElem(<<"b">>, NoAttrs, "slash", <<>>, <<>>),
      SrcElem(<<"b">>, NoAttrs, "pair", <<>>, <<"b">>),
      SrcElem(<<"B">>, NoAttrs, "pair", <<SrcText(<<"h","i">>)>>, <<"b">>),
      SrcElem(<<"b">>, NoAttrs, "pair", <<>>, <<"a">>),
      SrcElem(<<"b","c">>, NoAttrs, "pair", <<SrcText(<<"h","i">>)>>, <<"b">>) }

MismatchFrames ==
    { [open |-> n[1], attrs |-> NoAttrs, close |-> n[2], pre |-> x[1], post |-> x[2]] :
        n \in { <<Name_a, Name_a>>, <<<<"a","B">>, <<"A","b">>>>, <<Name_a, Name_b>> },
        x \in { <<<<>>, <<>>>>,
                <<<<SrcText(<<"t"," ">>)>>, <<>>>>,
                <<<<SrcElem(<<"c">>, NoAttrs, "slash", <<>>, <<>>)>>, <<SrcText(<<"t">>)>>>> } }

MismatchSrc == { Src(<<>>, r, <<>>) : r \in Wrapped(MismatchLeaves, MismatchFrames, MaxDepth) }

InitMismatch == \E s \in MismatchSrc : Start(<<>>, s)

NextMismatch == ParseElement \/ ParseNode \/ CompleteElement

SpecMismatch == InitMismatch /\ [][NextMismatch]_vars

\* an element written with an end tag whose name is not its start-tag name,
\* ASCII case aside
Mismatched(e) ==
    e.end = "pair" /\ to_ascii_lowercase(e.open) # to_ascii_lowercase(e.close)

HasMismatch(s) == \E e \in ElemsOf(s.root) : Mismatched(e)

\* C1: when some element of the buffer, at any depth, has an end-tag name that
\* differs from its start-tag name after ASCII lower-casing, Parser::element
\* returns Err::Failure, Parser::node returns the same Failure instead of
\* falling back to character data (on the root and on each item of the root
\* that holds such an element), and complete_element returns None; when all
\* names agree up to ASCII case the parse succeeds.
C1_MismatchIsFatal ==
    /\ (op = "element" /\ HasMismatch(src)) => result = Err("Failure", "Tag")
    /\ (op = "node" /\ \E e \in ElemsOf(Item(src, arg)) : Mismatched(e))
          => result = Err("Failure", "Tag")
    /\ (op = "complete_element" /\ HasMismatch(src)) => result = None
    /\ (op = "element" /\ ~HasMismatch(src)) =>
          /\ result.kind = "Ok"
          /\ result.rest = <<>>
          /\ result.val.name = to_ascii_lowercase(src.root.open)


\* a mismatch below the root, the root's own names agreeing: the Failure of
\* the inner element came out through the child loop of the root
C1_NestedMismatchSeen ==
    /\ op = "element"
    /\ ~Mismatched(src.root)
    /\ \E j \in 1..Len(src.root.kids) :
          /\ src.root.kids[j].k = "elem"
          /\ ~Mismatched(src.root.kids[j])
          /\ \E e \in ElemsOf(src.root.kids[j]) : Mismatched(e)
    /\ result = Err("Failure", "Tag")

----------------------------------------------------------------------------
(* Attribute keys (C2, C9).                                                *)

Key_x == <<"x">>

AttrDistinct == <<SrcAttr(Key_x, "\"", <<"1">>), SrcAttr(<<"y">>, "'", <<"2">>)>>

AttrSameKey == <<SrcAttr(Key_x, "\"", <<"1">>), SrcAttr(Key_x, "\"", <<"2">>)>>

AttrCaseKey == <<SrcAttr(Key_x, "\"", <<"1">>), SrcAttr(<<"X">>, "'", <<"2">>)>>

AttrFarKey ==
    <<SrcAttr(<<"k","X">>, "\"", <<"1">>), SrcAttr(<<"y">>, "\"", <<>>),
      SrcAttr(<<"K","x">>, "'", <<"3">>)>>

AttrLastKeys ==
    <<SrcAttr(<<"y">>, "\"", <<"1">>), SrcAttr(Key_x, "\"", <<"2">>),
      SrcAttr(Key_x, "\"", <<"2">>)>>

AttrLeaves ==
    { SrcElem(Name_b, at, "slash", <<>>, <<>>) :
        at \in {NoAttrs, <<SrcAttr(<<"I","d">>, "'", <<"v"," ","w">>)>>, AttrDistinct,
                AttrSameKey, AttrCaseKey, AttrFarKey, AttrLastKeys} }
    \cup { SrcElem(Name_b, AttrCaseKey, "pair", <<SrcText(<<"t">>)>>, Name_b) }

AttrFrames ==
    { [open |-> Name_a, attrs |-> f[1], close |-> Name_a, pre |-> f[2], post |-> f[3]] :
        f \in { <<NoAttrs, <<>>, <<>>>>,
                <<AttrCaseKey, <<>>, <<>>>>,
                <<AttrDistinct, <<SrcElem(<<"c">>, AttrDistinct, "slash", <<>>, <<>>)>>,
                  <<SrcText(<<"t">>)>>>>,
                <<AttrFarKey, <<SrcText(<<"t">>)>>, <<>>>> } }

Prolog10 ==
    <<"<","?","x","m","l"," ","v","e","r","s","i","o","n","=","\"","1",".","0","\"","?",">">>

AttrRoots ==
    Wrapped(AttrLeaves, AttrFrames, MaxDepth)
    \cup {SrcDoctype(<<" ","h","t","m","l">>, TRUE), SrcDoctype(<<" ","h","t","m","l">>, FALSE)}

AttrSrc == { Src(pr, r, <<>>) : pr \in {<<>>, Prolog10}, r \in AttrRoots }

InitAttrs == \E s \in AttrSrc : Start(<<>>, s)

NextAttrs ==
    ParseElement \/ ParseNode \/ CompleteElement \/ ParseDocument \/ CompleteDocument

SpecAttrs == InitAttrs /\ [][NextAttrs]_vars

\* a start tag in which two attribute keys are equal after ASCII lower-casing
DuplicateKeys(e) ==
    \E i, j \in 1..Len(e.attrs) :
        i < j /\ to_ascii_lowercase(e.attrs[i].key) = to_ascii_lowercase(e.attrs[j].key)

HasDuplicateKeys(s) == \E e \in ElemsOf(s.root) : DuplicateKeys(e)

\* the attributes as written, keys lower-cased: the map a start tag without
\* colliding keys stands for
WrittenMap(e) ==
    [key \in {to_ascii_lowercase(e.attrs[j].key) : j \in 1..Len(e.attrs)} |->
        (CHOOSE a \in {e.attrs[j] : j \in 1..Len(e.attrs)} :
            to_ascii_lowercase(a.key) = key).value]

\* C2: when a start tag of the buffer (the root's or a nested element's, with
\* two or more attributes) has two keys that are equal after ASCII
\* lower-casing, Parser::element and Parser::document return an error and
\* complete_element / complete_document return None: no tree comes back in
\* which one value overwrote the other.  Without a collision the root carries
\* every attribute written, under its lower-cased key.
C2_DuplicateKeyFails ==
    /\ (op \in {"element", "document"} /\ HasDuplicateKeys(src))
          => result.kind \in {"Error", "Failure"}
    /\ (op \in {"complete_element", "complete_document"} /\ HasDuplicateKeys(src))
          => result = None
    /\ (op = "element" /\ ~HasDuplicateKeys(src) /\ src.root.k = "elem")
          => /\ result.kind = "Ok"
             /\ result.val.attributes = WrittenMap(src.root)
    /\ (op = "complete_document" /\ ~HasDuplicateKeys(src) /\ src.root.k = "elem")
          => /\ result.kind = "Some"
             /\ result.val.root.attributes = WrittenMap(src.root)

\* three attributes, the first and the last colliding, on an element two
\* levels below the root
C2_DeepCollisionSeen ==
    /\ op = "complete_element"
    /\ src.root.k = "elem"
    /\ ~DuplicateKeys(src.root)
    /\ \E j \in 1..Len(src.root.kids) :
          /\ src.root.kids[j].k = "elem"
          /\ ~DuplicateKeys(src.root.kids[j])
          /\ \E e \in ElemsOf(src.root.kids[j]) : e.attrs = AttrFarKey
    /\ \A e \in ElemsOf(src.root) : DuplicateKeys(e) => e.attrs = AttrFarKey
    /\ result = None

UnterminatedDoctype(s) == s.root.k = "doctype" /\ ~s.root.closed

\* C9: Parser::element reports a mismatched end-tag name, a duplicate
\* attribute key and an unterminated doctype declaration as Err::Failure, so
\* that Parser::node does not go on to its character-data alternative.
C9_CommittedFailuresAreFatal ==
    (/\ op \in {"element", "node"}
     /\ arg = 0
     /\ HasMismatch(src) \/ HasDuplicateKeys(src) \/ UnterminatedDoctype(src))
        => result.kind = "Failure"

----------------------------------------------------------------------------
(* Element content: text runs and CDATA sections (C3, C7).                 *)

T_hi == SrcText(<<" ","h","i"," ">>)

T_blank == SrcText(<<" "," ">>)

C_markup == SrcCData(<<" ","<","b","/",">"," ">>)

ContentLeaves ==
    { SrcElem(Name_b, NoAttrs, "pair", kids, Name_b) :
        kids \in { <<>>, <<T_hi>>, <<T_blank>>, <<C_markup>>,
                   <<T_blank, C_markup, T_blank>>,
                   <<SrcCData(<<>>)>>,
                   <<SrcText(<<"x">>), SrcCData(<<"]">>), SrcText(<<" ","y">>)>>,
                   <<SrcCData(<<" ">>), SrcText(<<"\n">>)>>,
                   <<SrcCData(<<"a",">","]","]","b">>)>> } }

ContentFrames ==
    { [open |-> Name_a, attrs |-> NoAttrs, close |-> Name_a, pre |-> x[1], post |-> x[2]] :
        x \in { <<<<>>, <<>>>>,
                <<<<T_hi>>, <<SrcText(<<"\t","q"," ">>)>>>>,
                <<<<C_markup>>, <<T_blank>>>>,
                <<<<SrcText(<<"p">>), SrcCData(<<"<","a",">">>)>>, <<SrcCData(<<" ">>)>>>> } }

ContentSrc == { Src(<<>>, r, <<>>) : r \in Wrapped(ContentLeaves, ContentFrames, MaxDepth) }

InitContent == \E s \in ContentSrc : Start(<<>>, s)

NextContent == ParseElement \/ ParseNode \/ CompleteElement

SpecContent == InitContent /\ [][NextContent]_vars

\* a string without its leading whitespace
SkipLeading(s) == From(s, PrefixLen([k \in 1..Len(s) |-> is_whitespace(s[k])]) + 1)

Blank(s) == \A k \in 1..Len(s) : is_whitespace(s[k])

\* The children a sequence of items stands for.  A CDATA section is one
\* CharData with its text as written; an element is an Element; a text run
\* is one CharData, and with skip = TRUE a run that directly follows a tag
\* (afterTag) has lost its leading whitespace and is absent when nothing is
\* left of it.
RECURSIVE Read(_, _, _)
ReadElem(e, skip) ==
    Element(to_ascii_lowercase(e.open), WrittenMap(e),
            IF e.end = "pair" THEN Read(e.kids, TRUE, skip) ELSE <<>>)

Read(items, afterTag, skip) ==
    IF items = <<>> THEN <<>>
    ELSE CASE Head(items).k = "cdata" ->
                <<CharData(Head(items).s)>> \o Read(Tail(items), FALSE, skip)
           [] Head(items).k = "elem" ->
                <<ElementNode(ReadElem(Head(items), skip))>> \o Read(Tail(items), TRUE, skip)
           [] Head(items).k = "text" ->
                IF skip /\ afterTag
                THEN (IF Blank(Head(items).s) THEN <<>>
                      ELSE <<CharData(SkipLeading(Head(items).s))>>)
                     \o Read(Tail(items), FALSE, skip)
                ELSE <<CharData(Head(items).s)>> \o Read(Tail(items), FALSE, skip)

\* a tree without the CharData children that are empty once trimmed
RECURSIVE WithoutBlank(_)
WithoutBlank(e) ==
    Element(e.name, e.attributes,
        LET kept == SelectSeq(e.children, LAMBDA n : n.tag = "Element" \/ ~Blank(n.data))
        IN  [k \in 1..Len(kept) |->
                IF kept[k].tag = "Element"
                THEN ElementNode(WithoutBlank(kept[k].element))
                ELSE kept[k]])

\* the buffer behind item j of the root
AfterItem(s, j) == From(input, ItemStart(s, j) + Len(Write(Item(s, j))))

\* C3: Parser::node on a CDATA section of the element content returns one
\* CharData holding exactly the characters between <![CDATA[ and the first
\* ]]> that follows (with any < or >, untrimmed), and leaves the buffer behind
\* the ]]>; in the children Parser::element returns, every CDATA section is
\* such a CharData and none is an Element.
C3_CDataIsVerbatim ==
    /\ (op = "node" /\ Item(src, arg).k = "cdata")
          => result = Ok(AfterItem(src, arg), CharData(Item(src, arg).s))
    /\ op = "element"
          => /\ result.kind = "Ok"
             /\ result.val.children = Read(src.root.kids, TRUE, TRUE)

\* Parser::node met a CDATA section with markup characters in it
C3_MarkupInCDataSeen ==
    /\ op = "node"
    /\ Item(src, arg) = C_markup
    /\ result.kind = "Ok"
    /\ result.val = CharData(<<" ","<","b","/",">"," ">>)

\* C7 as stated: the tree complete_element returns holds, for every text run
\* and CDATA section of the buffer whose trimmed text is not empty, a CharData
\* equal to the run as written, and nothing for the others.
C7_RetainedTextIsSourceText ==
    (op = "complete_element" /\ result.kind = "Some")
        => result.val = WithoutBlank(ReadElem(src.root, FALSE))

\* C7, amended: the tree complete_element returns holds, for every text run
\* and CDATA section of the buffer, the CharData the parser made of it unless
\* its trimmed text is empty: a CDATA section and a text run that follows one
\* as written, a text run that directly follows a tag without its leading
\* whitespace; trailing whitespace always survives, and the strip pass
\* changes no text it keeps.
C7_RetainedTextIsParsedText ==
    op = "complete_element"
        => /\ result.kind = "Some"
           /\ result.val = WithoutBlank(ReadElem(src.root, TRUE))

\* a blank run was dropped and a run with whitespace left at an end was kept
C7_KeptAndDroppedSeen ==
    /\ op = "complete_element"
    /\ result.kind = "Some"
    /\ \E j \in 1..Len(src.root.kids) :
          src.root.kids[j].k = "text" /\ Blank(src.root.kids[j].s)
    /\ \E k \in 1..Len(result.val.children) :
          /\ result.val.children[k].tag = "CharData"
          /\ result.val.children[k].data # trim(result.val.children[k].data)

----------------------------------------------------------------------------
(* Names that may end without a slash (C5).                                *)

Name_img == <<"i","m","g">>

AttrSrcPng == <<SrcAttr(<<"s","r","c">>, "\"", <<"x",".","p","n","g">>)>>

T_rest == <<"r","e","s","t">>

NoCloseLeaves ==
    { SrcElem(n, at, e[1], e[2], Name_img) :
        n \in {Name_img, <<"I","m","G">>},
        at \in {NoAttrs, AttrSrcPng},
        e \in { <<"bare", <<>>>>, <<"slash", <<>>>>, <<"pair", <<SrcText(<<"t">>)>>>> } }
    \cup { SrcElem(Name_b, NoAttrs, "slash", <<>>, <<>>),
           SrcElem(Name_b, NoAttrs, "pair", <<SrcText(<<"t">>)>>, Name_b) }

NoCloseFrames ==
    { [open |-> Name_a, attrs |-> NoAttrs, close |-> Name_a, pre |-> x[1], post |-> x[2]] :
        x \in { <<<<>>, <<>>>>, <<<<>>, <<SrcText(<<"t">>)>>>> } }

NoCloseSrc ==
    { Src(<<>>, r, tl) :
        r \in Wrapped(NoCloseLeaves, NoCloseFrames, MaxDepth),
        tl \in { <<>>, T_rest, <<" ">> \o T_rest, <<"<","/">> \o Name_img \o <<">">> } }

InitNoClose == \E s \in NoCloseSrc : \E config \in {<<>>, <<Name_img>>} : Start(config, s)

NextNoClose == ParseElement \/ CompleteElement

SpecNoClose == InitNoClose /\ [][NextNoClose]_vars

\* the elements of a parsed tree, the root included
RECURSIVE TreeElements(_)
TreeElements(e) ==
    {e} \cup UNION { IF e.children[k].tag = "Element"
                     THEN TreeElements(e.children[k].element) ELSE {} :
                     k \in 1..Len(e.children) }

\* the buffer behind the root's start tag
AfterStartTag(s) ==
    From(input, Len(<<"<">> \o s.root.open \o WriteAttrs(s.root.attrs) \o <<">">>) + 1)

\* C5: for a root whose lower-cased name is in allow_no_close and whose
\* attributes are followed by a bare >, Parser::element returns the element
\* with its attributes and no children, and what follows the > stays in the
\* remaining input (less the whitespace Parser::element skips behind every
\* element); a root whose start tag ends in /> has no children under any
\* configuration; and no element of a returned tree whose name is in
\* allow_no_close has children.
C5_NoCloseHasNoChildren ==
    /\ (op = "element" /\ src.root.end \in {"bare", "pair"}
          /\ Contains(allow_no_close, to_ascii_lowercase(src.root.open)))
          => result = Ok(SkipLeading(AfterStartTag(src)),
                         Element(to_ascii_lowercase(src.root.open), WrittenMap(src.root), <<>>))
    /\ (op = "element" /\ src.root.end = "slash")
          => result = Ok(SkipLeading(src.tail),
                         Element(to_ascii_lowercase(src.root.open), WrittenMap(src.root), <<>>))
    /\ (op = "element" /\ result.kind = "Ok")
          => \A e \in TreeElements(result.val) :
                Contains(allow_no_close, e.name) => e.children = <<>>
    /\ (op = "complete_element" /\ result.kind = "Some")
          => \A e \in TreeElements(result.val) :
                Contains(allow_no_close, e.name) => e.children = <<>>

\* <img src="x.png">rest with allow_no_close = {img}
C5_ImgRestSeen ==
    /\ op = "element"
    /\ allow_no_close = <<Name_img>>
    /\ src = Src(<<>>, SrcElem(Name_img, AttrSrcPng, "bare", <<>>, Name_img), T_rest)
    /\ result = Ok(T_rest, Element(Name_img, [k \in {<<"s","r","c">>} |-> <<"x",".","p","n","g">>], <<>>))

----------------------------------------------------------------------------
(* The prolog's version literal (C6).                                      *)

\* version literals: the characters between the quotes, whether they are
\* `1.` followed by one or more ASCII digits, and the value of that digit run
\* (wide: the run is a number above i32::MAX)
VersionLiterals ==
    { [lit |-> <<"1",".","0">>, form |-> TRUE, wide |-> FALSE, value |-> 0],
      [lit |-> <<"1",".","2","3">>, form |-> TRUE, wide |-> FALSE, value |-> 23],
      [lit |-> <<"1",".","0","0","7">>, form |-> TRUE, wide |-> FALSE, value |-> 7],
      [lit |-> <<"1",".">> \o I32MaxDigits, form |-> TRUE, wide |-> FALSE, value |-> 2147483647],
      [lit |-> <<"1",".","2","1","4","7","4","8","3","6","4","8">>,
       form |-> TRUE, wide |-> TRUE, value |-> 0],
      [lit |-> <<"1",".">>, form |-> FALSE, wide |-> FALSE, value |-> 0],
      [lit |-> <<"1">>, form |-> FALSE, wide |-> FALSE, value |-> 0],
      [lit |-> <<>>, form |-> FALSE, wide |-> FALSE, value |-> 0],
      [lit |-> <<"2",".","0">>, form |-> FALSE, wide |-> FALSE, value |-> 0],
      [lit |-> <<"1",".","x">>, form |-> FALSE, wide |-> FALSE, value |-> 0],
      [lit |-> <<"1",".","0","a">>, form |-> FALSE, wide |-> FALSE, value |-> 0],
      [lit |-> <<"1",".","0"," ">>, form |-> FALSE, wide |-> FALSE, value |-> 0] }

EncodingUtf8 ==
    <<" ","e","n","c","o","d","i","n","g","=","\"","u","t","f","-","8","\"">>

WriteProlog(v, q, enc) ==
    <<"<","?","x","m","l"," ","v","e","r","s","i","o","n","=">>
        \o <<q>> \o v.lit \o <<q>> \o enc \o <<"?",">">>

DocSrc ==
    { [prolog |-> WriteProlog(v, q, enc), root |-> r, tail |-> tl, version |-> v] :
        v \in VersionLiterals, q \in {"\"", "'"}, enc \in {<<>>, EncodingUtf8},
        r \in { SrcElem(<<"r","o","o","t">>, NoAttrs, "slash", <<>>, <<>>),
                SrcElem(Name_a, NoAttrs, "pair", <<T_hi>>, Name_a) },
        tl \in {<<>>, <<"\n">>} }

InitDoc == \E s \in DocSrc : Start(<<>>, s)

NextDoc == ParseDocument \/ CompleteDocument

SpecDoc == InitDoc /\ [][NextDoc]_vars

\* C6: Parser::document accepts a quoted version literal only of the form `1.`
\* followed by one or more ASCII digits and reports the integer value of the
\* digit run as Document.version; for any other literal (`1.` without a digit
\* among them) it returns an error.
C6_VersionLiteral ==
    op = "document"
        => IF src.version.form
           THEN /\ result.kind = "Ok"
                /\ ~src.version.wide => result.val.version = src.version.value
           ELSE result.kind \in {"Error", "Failure"}

----------------------------------------------------------------------------
(* The two whitespace-strip passes on a tree (C8).                         *)

StripTexts == { <<"a">>, <<" ","a","\n">>, <<" ","\t">>, <<>> }

Attr_k == [key \in {<<"k">>} |-> <<" ","v"," ">>]

StripKids(S) ==
    {<<>>} \cup { <<x>> : x \in S } \cup { <<x, y>> : x \in S, y \in S }

StripLeaves == { Element(Name_a, EmptyMap, <<>>), Element(Name_b, Attr_k, <<>>) }

TextNodes == { CharData(t) : t \in StripTexts }

StripLevel1 ==
    { Element(e.name, e.attributes, kids) :
        e \in StripLeaves,
        kids \in StripKids(TextNodes \cup {ElementNode(x) : x \in StripLeaves}) }

StripTrees ==
    StripLevel1 \cup
    { Element(Name_a, EmptyMap, kids) :
        kids \in { <<x, ElementNode(y)>> : x \in TextNodes, y \in StripLevel1 }
             \cup { <<ElementNode(y), x>> : x \in TextNodes, y \in StripLevel1 } }

InitStrip ==
    /\ tree \in StripTrees
    /\ allow_no_close = <<>>
    /\ src = Src(<<>>, SrcText(<<>>), <<>>)
    /\ input = <<>>
    /\ refs = <<>>
    /\ arg = 0
    /\ op = ""
    /\ result = Idle

\* e.strip_whitespace() on the tree
StripInPlace ==
    /\ op = ""
    /\ op' = "Element::strip_whitespace"
    /\ result' = Some(Element_strip_whitespace(tree))
    /\ UNCHANGED <<allow_no_close, src, input, tree, refs, arg>>

\* strip_whitespace(Node::Element(e)) on the tree
StripPure ==
    /\ op = ""
    /\ op' = "strip_whitespace"
    /\ result' = Some(strip_whitespace(ElementNode(tree)))
    /\ UNCHANGED <<allow_no_close, src, input, tree, refs, arg>>

NextStrip == StripInPlace \/ StripPure

SpecStrip == InitStrip /\ [][NextStrip]_vars

\* a tree with every CharData replaced by its trimmed text
RECURSIVE Trimmed(_)
Trimmed(e) ==
    Element(e.name, e.attributes,
        [k \in 1..Len(e.children) |->
            IF e.children[k].tag = "Element"
            THEN ElementNode(Trimmed(e.children[k].element))
            ELSE CharData(trim(e.children[k].data))])

\* a tree with the text of every CharData forgotten
RECURSIVE Shape(_)
Shape(e) ==
    Element(e.name, e.attributes,
        [k \in 1..Len(e.children) |->
            IF e.children[k].tag = "Element"
            THEN ElementNode(Shape(e.children[k].element))
            ELSE CharData(<<>>)])

\* C8: on every element tree the in-place pass and the pure pass drop the
\* same CharData children at every depth, those that are blank; both keep the
\* names, the attributes and the order of what remains; the in-place pass keeps
\* the text as it was and the pure result is the in-place result with every
\* CharData trimmed.
C8_StripPassesAgree ==
    /\ op = "Element::strip_whitespace"
          => /\ result.val = WithoutBlank(tree)
             /\ ElementNode(Trimmed(result.val)) = strip_whitespace(ElementNode(tree))
    /\ op = "strip_whitespace"
          => /\ result.val.tag = "Element"
             /\ result.val.element = Trimmed(Element_strip_whitespace(tree))
             /\ Shape(result.val.element) = Shape(WithoutBlank(tree))

\* a tree with a blank text below the root's child and a padded text kept
C8_NestedBlankSeen ==
    /\ op = "strip_whitespace"
    /\ \E k \in 1..Len(tree.children) :
          /\ tree.children[k].tag = "Element"
          /\ \E j \in 1..Len(tree.children[k].element.children) :
                /\ tree.children[k].element.children[j].tag = "CharData"
                /\ Blank(tree.children[k].element.children[j].data)
          /\ \E j \in 1..Len(tree.children[k].element.children) :
                /\ tree.children[k].element.children[j].tag = "CharData"
                /\ tree.children[k].element.children[j].data = <<" ","a","\n">>
    /\ result.val.element # tree
    /\ result.val.element # Element_strip_whitespace(tree)

----------------------------------------------------------------------------
(* QuerySupport.  A &Node or &Element is the path of child indices (1-based) *)
(* from the root of the tree it borrows from; &Element may be the root, <<>>. *)

RECURSIVE NodeAt(_, _)
NodeAt(e, p) ==
    IF Len(p) = 1 THEN e.children[p[1]]
    ELSE NodeAt(e.children[p[1]].element, Tail(p))

ElementAt(e, p) == IF p = <<>> THEN e ELSE NodeAt(e, p).element

\* Element::children(&self) of the element at p
children(t, p) == [k \in 1..Len(ElementAt(t, p).children) |-> p \o <<k>>]

\* usize is modelled by its two's-complement reading: 0 - 1 = 2^64 - 1 is
\* written -1, and the unsigned `index < len` is
usize_lt(index, len) == index >= 0 /\ index < len

Vec_only(self) == IF Len(self) = 1 THEN Some(self[1]) ELSE None

Vec_nth(self, index) ==
    IF usize_lt(index, Len(self)) THEN Some(self[index + 1]) ELSE None

Vec_first(self) == Vec_nth(self, 0)

\* Vec<&Node>::last: self.nth(self.len() - 1).  On the empty vector the
\* subtraction overflows: a panic where overflow checks are compiled in, the
\* index 2^64 - 1 where they are not.  The outcomes are [index, result] pairs.
Node_last(self) ==
    IF Len(self) = 0
    THEN { [index |-> 0, result |-> Panic],
           [index |-> -1, result |-> Vec_nth(self, -1)] }
    ELSE { [index |-> Len(self) - 1, result |-> Vec_nth(self, Len(self) - 1)] }

\* Vec<&Element>::last
Element_last(self) == IF Len(self) = 0 THEN None ELSE Some(self[Len(self)])

RECURSIVE Node_elem_name(_, _, _)

\* (faulty variant) the loop body also searching below an element that matched
Node_elem_name_deep(t, x, name) ==
    IF NodeAt(t, x).tag # "Element" THEN <<>>
    ELSE (IF eq_ignore_ascii_case(NodeAt(t, x).element.name, name) THEN <<x>> ELSE <<>>)
         \o Node_elem_name(t, children(t, x), name)

\* the loop body of Vec<&Node>::elem_name for the member x
Node_elem_name_item(t, x, name) ==
    IF NodeAt(t, x).tag # "Element" THEN <<>>
    ELSE IF eq_ignore_ascii_case(NodeAt(t, x).element.name, name) THEN <<x>>
    ELSE Node_elem_name(t, children(t, x), name)

Node_elem_name(t, self, name) ==
    IF self = <<>> THEN <<>>
    ELSE Node_elem_name_item(t, Head(self), name) \o Node_elem_name(t, Tail(self), name)

\* the loop body of Vec<&Element>::elem_name for the member x
Element_elem_name_item(t, x, name) ==
    IF eq_ignore_ascii_case(ElementAt(t, x).name, name) THEN <<x>>
    ELSE Node_elem_name(t, children(t, x), name)

RECURSIVE Element_elem_name(_, _, _)
Element_elem_name(t, self, name) ==
    IF self = <<>> THEN <<>>
    ELSE Element_elem_name_item(t, Head(self), name)
         \o Element_elem_name(t, Tail(self), name)

----------------------------------------------------------------------------
(* Trees and vectors of references for the queries (C4, C10).              *)

Name_x == <<"x">>

Name_y == <<"y">>

QueryLevel0 == { Element(n, EmptyMap, <<>>) : n \in {Name_x, Name_y} }

QueryLevel1 ==
    { Element(n, EmptyMap, kids) :
        n \in {Name_x, <<"Y">>},
        kids \in { <<ElementNode(c)>> : c \in QueryLevel0 }
             \cup { <<CharData(<<"x">>), ElementNode(c)>> : c \in QueryLevel0 }
             \cup { <<ElementNode(c), ElementNode(d)>> : c \in QueryLevel0, d \in QueryLevel0 } }

QueryTrees ==
    QueryLevel1
    \cup { Element(n, EmptyMap, <<ElementNode(c)>>) :
             n \in {Name_x, Name_y}, c \in QueryLevel1 }
    \cup { Element(Name_y, EmptyMap, <<ElementNode(c), ElementNode(d)>>) :
             c \in QueryLevel1, d \in QueryLevel0 }

\* the paths of the nodes of a tree
RECURSIVE NodePaths(_)
NodePaths(e) ==
    UNION { {<<k>>} \cup (IF e.children[k].tag = "Element"
                          THEN { <<k>> \o q : q \in NodePaths(e.children[k].element) }
                          ELSE {}) : k \in 1..Len(e.children) }

ElementPaths(t) == {<<>>} \cup { p \in NodePaths(t) : NodeAt(t, p).tag = "Element" }

\* length bound of the vectors of references
MaxRefs == 2

RECURSIVE SeqsUpTo(_, _)
SeqsUpTo(S, n) ==
    IF n = 0 THEN {<<>>}
    ELSE SeqsUpTo(S, n - 1) \cup { Append(q, x) : q \in SeqsUpTo(S, n - 1), x \in S }

InitQuery ==
    /\ tree \in QueryTrees
    /\ refs \in SeqsUpTo(NodePaths(tree) \cup {<<>>}, MaxRefs)
    /\ allow_no_close = <<>>
    /\ src = Src(<<>>, SrcText(<<>>), <<>>)
    /\ input = <<>>
    /\ arg = 0
    /\ op = ""
    /\ result = Idle

\* refs is a Vec<&Node>: every member is a node
IsNodeVec == \A k \in 1..Len(refs) : refs[k] # <<>>

\* refs is a Vec<&Element>: every member is an element
IsElementVec == \A k \in 1..Len(refs) : refs[k] \in ElementPaths(tree)

Targets == { Name_x, <<"Y">> }

Ran(name, a, r) ==
    /\ op' = name
    /\ arg' = a
    /\ result' = r
    /\ UNCHANGED <<allow_no_close, src, input, tree, refs>>

NodeOnly == op = "" /\ IsNodeVec /\ Ran("Node::only", 0, Vec_only(refs))

NodeFirst == op = "" /\ IsNodeVec /\ Ran("Node::first", 0, Vec_first(refs))

NodeNth ==
    /\ op = "" /\ IsNodeVec
    /\ \E index \in 0..MaxRefs : Ran("Node::nth", index, Vec_nth(refs, index))

NodeLast ==
    /\ op = "" /\ IsNodeVec
    /\ \E o \in Node_last(refs) : Ran("Node::last", o.index, o.result)

NodeElemName ==
    /\ op = "" /\ IsNodeVec
    /\ \E name \in Targets :
          Ran("Node::elem_name", name, Some(Node_elem_name(tree, refs, name)))

ElementOnly == op = "" /\ IsElementVec /\ Ran("Element::only", 0, Vec_only(refs))

ElementFirst == op = "" /\ IsElementVec /\ Ran("Element::first", 0, Vec_first(refs))

ElementNth ==
    /\ op = "" /\ IsElementVec
    /\ \E index \in 0..MaxRefs : Ran("Element::nth", index, Vec_nth(refs, index))

ElementLast ==
    /\ op = "" /\ IsElementVec
    /\ Ran("Element::last", Len(refs) - 1, Element_last(refs))

ElementElemName ==
    /\ op = "" /\ IsElementVec
    /\ \E name \in Targets :
          Ran("Element::elem_name", name, Some(Element_elem_name(tree, refs, name)))

NextQuery ==
    \/ NodeOnly \/ NodeFirst \/ NodeNth \/ NodeLast \/ NodeElemName
    \/ ElementOnly \/ ElementFirst \/ ElementNth \/ ElementLast \/ ElementElemName

SpecQuery == InitQuery /\ [][NextQuery]_vars

----------------------------------------------------------------------------
(* C4, C10: the queries over vectors of references.                        *)

IsPrefix(p, q) == Len(p) <= Len(q) /\ SubSeq(q, 1, Len(p)) = p

Inside(p, q) == IsPrefix(p, q) /\ p # q

\* document order of two paths neither of which is inside the other
RECURSIVE Before(_, _)
Before(p, q) ==
    IF p = <<>> \/ q = <<>> THEN FALSE
    ELSE IF Head(p) = Head(q) THEN Before(Tail(p), Tail(q))
    ELSE Head(p) < Head(q)

SameName(a, b) == to_ascii_lowercase(a) = to_ascii_lowercase(b)

Matching(t, name) == { q \in ElementPaths(t) : SameName(ElementAt(t, q).name, name) }

\* the matching elements at or below the member m with no matching element
\* between m and themselves
Outermost(t, m, name) ==
    { q \in Matching(t, name) :
        /\ IsPrefix(m, q)
        /\ \A a \in Matching(t, name) : ~(IsPrefix(m, a) /\ Inside(a, q)) }

RECURSIVE InOrder(_)
InOrder(S) ==
    IF S = {} THEN <<>>
    ELSE <<CHOOSE p \in S : \A q \in S \ {p} : Before(p, q)>>
         \o InOrder(S \ {CHOOSE p \in S : \A q \in S \ {p} : Before(p, q)})

RECURSIVE Expected(_, _, _)
Expected(t, self, name) ==
    IF self = <<>> THEN <<>>
    ELSE InOrder(Outermost(t, Head(self), name)) \o Expected(t, Tail(self), name)

NoneInsideAnother(q) == \A i \in 1..Len(q) : \A j \in 1..Len(q) : ~Inside(q[i], q[j])

Separate(q) ==
    \A i \in 1..Len(q) : \A j \in 1..Len(q) : i # j => ~IsPrefix(q[i], q[j])

ElemNameRan == op \in {"Node::elem_name", "Element::elem_name"}

ElemNameFinds ==
    /\ result.val = Expected(tree, refs, arg)
    /\ IsNodeVec => result.val = Node_elem_name(tree, refs, arg)
    /\ IsElementVec => result.val = Element_elem_name(tree, refs, arg)

\* C4 as stated: elem_name returns, in document pre-order, the elements at or
\* below each member whose name matches ignoring case and that have no matching
\* ancestor among the visited elements; the search does not go below a match;
\* character data contributes nothing; no returned element is a descendant of
\* another; both vector types give the same answer.
C4_ElemNameOutermost ==
    ElemNameRan => ElemNameFinds /\ NoneInsideAnother(result.val)

\* C4 amended: the same, with "no returned element is a descendant of another"
\* holding when no member of the vector is the same as or inside another member.
C4_ElemNameOutermostOfSeparate ==
    ElemNameRan => ElemNameFinds /\ (Separate(refs) => NoneInsideAnother(result.val))

\* two separate members, two results, and a match that was passed over
\* because it lies inside a returned element
C4_PrunedMatchSeen ==
    /\ op = "Node::elem_name"
    /\ Len(refs) = 2 /\ Separate(refs)
    /\ Len(result.val) = 2
    /\ \E q \in Matching(tree, arg) : Inside(result.val[1], q)

PositionalRan ==
    op \in {"Node::only", "Node::first", "Node::nth", "Node::last",
            "Element::only", "Element::first", "Element::nth", "Element::last"}

\* C10: the positional accessors never abort and never wrap an index: only()
\* is the single member or nothing, nth(i) the member at i or nothing, first()
\* is nth(0), last() the final member or nothing on the empty vector, for both
\* vector types.
C10_PositionalTotal ==
    PositionalRan =>
        /\ result.kind \in {"Some", "None"}
        /\ arg >= 0
        /\ op \in {"Node::only", "Element::only"} =>
              result = IF Len(refs) = 1 THEN Some(refs[1]) ELSE None
        /\ op \in {"Node::nth", "Element::nth"} =>
              result = IF arg < Len(refs) THEN Some(refs[arg + 1]) ELSE None
        /\ op \in {"Node::first", "Element::first"} =>
              result = IF refs = <<>> THEN None ELSE Some(refs[1])
        /\ op \in {"Node::last", "Element::last"} =>
              result = IF refs = <<>> THEN None ELSE Some(refs[Len(refs)])

====
